---- MODULE Spec2Model ----
(***************************************************************************)
(* A model of jedi/inference/gradual/annotation.py: annotation inference,  *)
(* comment annotations, and the unification of type variables against the  *)
(* actual arguments of a call.                                             *)
(*                                                                         *)
(* Source text is modelled as a sequence of tokens, syntax trees as        *)
(* records, values as records tagged by "kind", a ValueSet as a set of     *)
(* values and a type-var dict as a function from type-var names to         *)
(* ValueSets.                                                              *)
(***************************************************************************)
EXTENDS Integers, Sequences, FiniteSets, TLC

VARIABLES
    pc,          \* the function being executed and its position, or "idle"
    args,        \* the arguments of the call in progress (a record)
    result,      \* the value returned by the last call
    type_vars,   \* the dict a loop accumulates into
                 \* (annotation_variable_results / all_type_vars)
    pending,     \* what the loop has still to iterate over
    merged       \* the dicts the loop has combined so far, in order

vars == <<pc, args, result, type_vars, pending, merged>>

\* ------------------------------------------------------------------ bounds

MaxTextLen == 4      \* longest enumerated comment text, in tokens
MaxParams == 2       \* most parameters of a modelled function
MaxGroups == 2       \* most parameter groups of a callable
MaxValues == 2       \* most members of an actual value set
MaxIndex == 2        \* largest index _infer_annotation_string is called with

\* ------------------------------------------------------------------ text

NameTokens == {"foo", "Bar", "T", "U", "int", "str", "amb", "list", "Tuple",
               "Type", "Iterable", "mod"}
AtomTokens == NameTokens \cup {"1", "..."}
Alphabet == {"foo", "Bar", "1", ",", "[", "]", "."}

\* Op applied to the value of v, with v evaluated once.
With(v, Op(_)) == CHOOSE r \in {Op(x) : x \in {v}} : TRUE

RECURSIVE SeqsUpTo(_, _)
SeqsUpTo(S, n) ==
    IF n = 0 THEN {<<>>}
    ELSE With(SeqsUpTo(S, n - 1),
              LAMBDA shorter :
                 shorter \cup {Append(s, x) : s \in {t \in shorter : Len(t) = n - 1},
                                              x \in S})

\* ---------------------------------------------------------------- parser
\* The fragment of parso's Python grammar that type expressions use:
\*        testlist: expr (',' expr)* [',']
\*        expr:     atom trailer*
\*        trailer:  '[' testlist ']' | '.' NAME
\* A node is [type, value, children, code]; code is the token sequence the
\* node spans (what get_code() returns, whitespace aside).

Leaf(type, tok) == [type |-> type, value |-> tok, children |-> <<>>, code |-> <<tok>>]
Node(type, children, code) ==
    [type |-> type, value |-> "", children |-> children, code |-> code]

NoParse == [ok |-> FALSE, node |-> Leaf("error", ""), next |-> 0]

AtomType(tok) == IF tok \in NameTokens THEN "name"
                 ELSE IF tok = "1" THEN "number" ELSE "operator"

\* A node with a single child is replaced by the child.
Collapse(type, children, code) ==
    IF Len(children) = 1 THEN children[1] ELSE Node(type, children, code)

RECURSIVE ParseExpr(_, _), ParseTrailers(_, _, _), ParseList(_, _, _)

\* expr at position i: an atom followed by its trailers.
ParseExpr(t, i) ==
    IF i > Len(t) \/ t[i] \notin AtomTokens THEN NoParse
    ELSE With(ParseTrailers(t, i + 1, <<Leaf(AtomType(t[i]), t[i])>>),
              LAMBDA r :
                 IF ~r.ok THEN NoParse
                 ELSE [ok |-> TRUE,
                       node |-> Collapse("atom_expr", r.node.children,
                                         SubSeq(t, i, r.next - 1)),
                       next |-> r.next])

\* trailers from position j on; kids holds the atom and the trailers so far.
ParseTrailers(t, j, kids) ==
    IF j <= Len(t) /\ t[j] = "["
    THEN With(ParseList(t, j + 1, <<>>),
              LAMBDA inner :
                 IF inner.ok /\ inner.next <= Len(t) /\ t[inner.next] = "]"
                 THEN With(Append(kids,
                               Node("trailer",
                                    <<Leaf("operator", "["),
                                      Collapse("subscriptlist", inner.node.children,
                                               SubSeq(t, j + 1, inner.next - 1)),
                                      Leaf("operator", "]")>>,
                                    SubSeq(t, j, inner.next))),
                           LAMBDA more : ParseTrailers(t, inner.next + 1, more))
                 ELSE NoParse)
    ELSE IF j <= Len(t) /\ t[j] = "."
    THEN IF j + 1 <= Len(t) /\ t[j + 1] \in NameTokens
         THEN With(Append(kids, Node("trailer",
                                     <<Leaf("operator", "."), Leaf("name", t[j + 1])>>,
                                     SubSeq(t, j, j + 1))),
                   LAMBDA more : ParseTrailers(t, j + 2, more))
         ELSE NoParse
    ELSE [ok |-> TRUE, node |-> Node("trailers", kids, <<>>), next |-> j]

\* expr (',' expr)* [','] from position j on; kids holds the children so far
\* (expressions and comma leaves alternate).
ParseList(t, j, kids) ==
    With(ParseExpr(t, j),
         LAMBDA e :
            IF ~e.ok THEN NoParse
            ELSE IF e.next <= Len(t) /\ t[e.next] = ","
            THEN With(kids \o <<e.node, Leaf("operator", ",")>>,
                      LAMBDA more :
                         IF e.next + 1 <= Len(t) /\ t[e.next + 1] \in AtomTokens
                         THEN ParseList(t, e.next + 1, more)
                         ELSE [ok |-> TRUE, node |-> Node("list", more, <<>>),
                               next |-> e.next + 1])
            ELSE [ok |-> TRUE, node |-> Node("list", Append(kids, e.node), <<>>),
                  next |-> e.next])

\* grammar.parse(text, start_symbol='eval_input', error_recovery=False):
\* ok = FALSE stands for ParserSyntaxError.
ParseEvalInput(text) ==
    With(ParseList(text, 1, <<>>),
         LAMBDA r :
            IF r.ok /\ r.next = Len(text) + 1
            THEN [ok |-> TRUE, node |-> Collapse("testlist", r.node.children, text)]
            ELSE [ok |-> FALSE, node |-> Leaf("error", "")])

\* parse(text, error_recovery=False).children[0]: the first child of the
\* module, which is the end marker when the text is empty.
ParseModuleFirstChild(text) ==
    IF text = <<>> THEN [ok |-> TRUE, node |-> Leaf("endmarker", "")]
    ELSE With(ParseList(text, 1, <<>>),
              LAMBDA r :
                 IF r.ok /\ r.next = Len(text) + 1
                 THEN [ok |-> TRUE,
                       node |-> Collapse("testlist_star_expr", r.node.children, text)]
                 ELSE [ok |-> FALSE, node |-> Leaf("error", "")])

\* ---------------------------------------------------------------- values
\* The value model of jedi.inference: the capabilities annotation.py uses.

ClassValue(name, parents) ==
    [kind |-> "class", name |-> name, generics |-> <<>>, parents |-> parents, obj |-> 0]

\* obj tells apart objects that separate constructor calls created: values
\* are compared by identity, so two GenericClass objects with the same class
\* and generics are two members of a ValueSet.
GenericClassObj(name, generics, parents, obj) ==
    [kind |-> "generic", name |-> name, generics |-> generics, parents |-> parents,
     obj |-> obj]

GenericClass(name, generics) == GenericClassObj(name, generics, <<>>, 0)

TypingClassValueWithIndex(name, generics, homogenous) ==
    [kind |-> "typing", name |-> name, generics |-> generics,
     homogenous |-> homogenous]

TypeVar(name) == [kind |-> "typevar", name |-> name]

Instance(cls) == [kind |-> "instance", cls |-> cls]

StringValue(text) == [kind |-> "string", text |-> text]

SequenceLiteralValue(array_type, elems) ==
    [kind |-> "sequence", array_type |-> array_type, elems |-> elems]

FunctionValue(returns) == [kind |-> "function", returns |-> returns]

NO_VALUES == {}

int == ClassValue("int", <<>>)
str == ClassValue("str", <<>>)

is_string(v) == v.kind = "string"
IsTypeVar(v) == v.kind = "typevar"
IsGenericClass(v) == v.kind = "generic"
IsDefineGenericBase(v) == v.kind \in {"generic", "typing"}

py__name__(v) ==
    CASE v.kind \in {"class", "generic", "typing", "typevar"} -> v.name
      [] v.kind = "instance" -> v.cls.name
      [] v.kind = "string" -> "str"
      [] v.kind = "sequence" -> v.array_type
      [] OTHER -> "function"

get_generics(v) == IF v.kind \in {"class", "generic", "typing"} THEN v.generics ELSE <<>>

is_instance(v) == v.kind = "instance"

\* Only instances have get_annotated_class_object.
get_annotated_class_object(v) == v.cls

py__mro__(v) == IF v.kind \in {"class", "generic"} THEN <<v>> \o v.parents ELSE <<>>

\* ValueSet.py__class__(): the class of every member.
py__class__(S) ==
    {CASE v.kind = "instance" -> v.cls
       [] v.kind = "string" -> str
       [] v.kind = "sequence" -> ClassValue(v.array_type, <<>>)
       [] v.kind = "function" -> ClassValue("function", <<>>)
       [] OTHER -> ClassValue("type", <<>>) : v \in S}

\* ValueSet.execute_annotation(): a class gives its instance, a callable what
\* it returns; an unconstrained type variable has no classes to execute.
execute_annotation(S) ==
    UNION {CASE v.kind \in {"class", "generic", "typing"} -> {Instance(v)}
             [] v.kind = "function" -> v.returns
             [] OTHER -> {} : v \in S}

UnionOfSeq(sets) == UNION {sets[i] : i \in 1..Len(sets)}

\* What iterating one value yields, all positions merged. Instances of the
\* class Bag are iterable without being generic: iterating one yields strings.
IterateMerged(v) ==
    CASE v.kind = "sequence" -> UnionOfSeq(v.elems)
      [] v.kind = "instance" /\ v.cls.kind = "generic" ->
            execute_annotation(UnionOfSeq(v.cls.generics))
      [] v.kind = "instance" /\ v.cls.kind = "class" /\ v.cls.name = "Bag" ->
            {Instance(str)}
      [] OTHER -> {}

\* ValueSet.merge_types_of_iterate(): every member of the set is iterated.
merge_types_of_iterate(S) == UNION {IterateMerged(v) : v \in S}

\* ----------------------------------------------------------- type-var dicts

EmptyDict == [k \in {} |-> {}]

RECURSIVE define_generics(_, _)
\* TypeVar.define_generics and DefineGenericBase.define_generics.
define_generics(v, type_var_dict) ==
    IF IsTypeVar(v)
    THEN IF v.name \in DOMAIN type_var_dict /\ type_var_dict[v.name] # {}
         THEN type_var_dict[v.name]
         ELSE {v}
    ELSE {[v EXCEPT !.generics =
             [i \in 1..Len(v.generics) |->
                UNION {IF IsTypeVar(g) \/ IsDefineGenericBase(g)
                       THEN define_generics(g, type_var_dict)
                       ELSE {g} : g \in v.generics[i]}]]}

\* ------------------------------------------------------- inference engine
\* context.infer_node: names resolve in a fixed scope.

Env(name) ==
    CASE name = "T" -> {TypeVar("T")}
      [] name = "U" -> {TypeVar("U")}
      [] name = "int" -> {int}
      [] name = "str" -> {str}
      [] name = "amb" -> {int, str}
      [] name \in {"list", "Iterable", "Tuple", "Type", "Bar"} -> {ClassValue(name, <<>>)}
      [] OTHER -> {}

StringNode(text) == [type |-> "string", value |-> "", children |-> <<>>, code |-> text]

\* The expressions among the children of a comma-separated list.
ListElements(node) ==
    IF node.type \in {"subscriptlist", "testlist", "testlist_star_expr"}
    THEN [i \in 1..((Len(node.children) + 1) \div 2) |-> node.children[2 * i - 1]]
    ELSE <<node>>

RECURSIVE infer_node(_)
infer_node(node) ==
    CASE node.type = "name" -> Env(node.value)
      [] node.type = "number" -> {Instance(int)}
      [] node.type = "string" -> {StringValue(node.code)}
      [] node.type \in {"testlist", "testlist_star_expr"} ->
            LET es == ListElements(node)
            IN {SequenceLiteralValue("tuple", [i \in 1..Len(es) |-> infer_node(es[i])])}
      [] node.type = "atom_expr" /\ Len(node.children) = 2 ->
            LET base == node.children[1]
                trailer == node.children[2]
            IN IF trailer.children[1].value = "."
               THEN IF base.value = "mod" THEN Env(trailer.children[2].value) ELSE {}
               ELSE LET es == ListElements(trailer.children[2])
                        homogenous == Len(es) = 2 /\ es[2].value = "..."
                        n == IF homogenous THEN 1 ELSE Len(es)
                        generics == [i \in 1..n |-> infer_node(es[i])]
                    IN {IF b.name \in {"Tuple", "Type"}
                        THEN TypingClassValueWithIndex(b.name, generics, homogenous)
                        ELSE GenericClass(b.name, generics) : b \in infer_node(base)}
      [] OTHER -> {}

\* ------------------------------------------------------ forward references

\* _get_forward_reference_node: ok = FALSE stands for the None it returns
\* after a ParserSyntaxError.
get_forward_reference_node(string) == ParseEvalInput(string)

infer_annotation(annotation) ==
    LET value_set == infer_node(annotation)
    IN IF Cardinality(value_set) # 1 THEN value_set
       ELSE LET inferred_value == CHOOSE v \in value_set : TRUE
            IN IF is_string(inferred_value)
               THEN LET r == get_forward_reference_node(inferred_value.text)
                    IN IF r.ok THEN infer_node(r.node) ELSE value_set
               ELSE value_set

\* What value.py__iter__() yields: one lazy value per element.
py__iter__(v) == IF v.kind = "sequence" THEN v.elems ELSE <<>>

\* value.array_type is None for everything but a sequence.
HasArrayType(v, array_type) == v.kind = "sequence" /\ v.array_type = array_type

\* The filter of _infer_annotation_string (index is zero-based).
IndexFilter(value_set, index) ==
    {v \in value_set : HasArrayType(v, "tuple") /\ Len(py__iter__(v)) >= index}

\* _infer_annotation_string; index is <<>> for None and <<i>> for i. The
\* return value is [values, raised]: raised records that py__simple_getitem__
\* was called with an index outside a tuple, whose IndexError the function
\* lets through.
infer_annotation_string(string, index) ==
    LET r == get_forward_reference_node(string)
    IN IF ~r.ok THEN [values |-> NO_VALUES, raised |-> FALSE]
       ELSE LET value_set == infer_node(r.node)
            IN IF index = <<>> THEN [values |-> value_set, raised |-> FALSE]
               ELSE LET i == index[1]
                        kept == IndexFilter(value_set, i)
                    IN IF \E v \in kept : i + 1 > Len(v.elems)
                       THEN [values |-> NO_VALUES, raised |-> TRUE]
                       ELSE [values |-> UNION {v.elems[i + 1] : v \in kept},
                             raised |-> FALSE]

\* -------------------------------------------------------- comment fragments

IsFragmentType(type) == type \in {"name", "atom_expr", "power"}

IsFragment(node) == IsFragmentType(node.type)

\* The loop over node.children: the code of each child of a fragment type.
FragmentsOf(children) ==
    With(SelectSeq(children, IsFragment),
         LAMBDA kept : [i \in 1..Len(kept) |-> kept[i].code])

\* _split_comment_param_declaration without the test for a single fragment.
split_comment_param_declaration_children(decl_text) ==
    LET r == ParseModuleFirstChild(decl_text)
    IN IF ~r.ok THEN <<>> ELSE FragmentsOf(r.node.children)

split_comment_param_declaration(decl_text) ==
    LET r == ParseModuleFirstChild(decl_text)
    IN IF ~r.ok THEN <<>>
       ELSE IF IsFragmentType(r.node.type) THEN <<r.node.code>>
       ELSE FragmentsOf(r.node.children)

\* ------------------------------------------------------------- unification

\* _merge_type_var_dicts with assignment in place of |=.
merge_type_var_dicts_assign(base_dict, new_dict) ==
    With(<<base_dict, new_dict>>,
         LAMBDA d :
            LET base == d[1]
                new == d[2]
                added == {k \in DOMAIN new : new[k] # {}}
            IN [k \in DOMAIN base \cup added |->
                  IF k \in added THEN new[k] ELSE base[k]])

\* _merge_type_var_dicts: the dict base_dict is after the call.
merge_type_var_dicts(base_dict, new_dict) ==
    With(<<base_dict, new_dict>>,
         LAMBDA d :
            LET base == d[1]
                new == d[2]
                added == {k \in DOMAIN new : new[k] # {}}
            IN [k \in DOMAIN base \cup added |->
                  IF k \notin added THEN base[k]
                  ELSE IF k \in DOMAIN base THEN base[k] \cup new[k]
                  ELSE new[k]])

RECURSIVE infer_type_vars(_, _, _), MergeNested(_, _, _, _), MergePairwise(_, _, _, _),
          TypeElements(_, _, _), TupleElements(_, _, _, _), MroElements(_, _, _),
          MroWalk(_, _, _, _)

\* BindTypeVar with the two cases exchanged.
BindTypeVar_exchanged(annotation_name, value_set, is_class_value) ==
    IF is_class_value
    THEN annotation_name :> py__class__(value_set)
    ELSE annotation_name :> value_set

\* The branch of _infer_type_vars for a bare TypeVar.
BindTypeVar(annotation_name, value_set, is_class_value) ==
    IF ~is_class_value
    THEN annotation_name :> py__class__(value_set)
    ELSE annotation_name :> value_set

\* for nested_annotation_value in <set>: _merge_type_var_dicts(type_var_dict,
\* _infer_type_vars(nested_annotation_value, value_set, is_class_value))
MergeNested(type_var_dict, nested, value_set, is_class_value) ==
    IF nested = {} THEN type_var_dict
    ELSE With(CHOOSE v \in nested : TRUE,
              LAMBDA nested_annotation_value :
                 With(merge_type_var_dicts(
                          type_var_dict,
                          infer_type_vars(nested_annotation_value, value_set,
                                          is_class_value)),
                      LAMBDA d : MergeNested(d, nested \ {nested_annotation_value},
                                             value_set, is_class_value)))

\* for annotation_generics_set, actual_generic_set in zip(...), from pair i on.
MergePairwise(type_var_dict, annotation_generics, actual_generics, i) ==
    IF i > Len(annotation_generics) \/ i > Len(actual_generics) THEN type_var_dict
    ELSE With(MergeNested(type_var_dict, annotation_generics[i], actual_generics[i], TRUE),
              LAMBDA d : MergePairwise(d, annotation_generics, actual_generics, i + 1))

\* Type[...] against classes: the loop over the elements of value_set.
TypeElements(type_var_dict, annotation_value, elements) ==
    IF elements = {} THEN type_var_dict
    ELSE With(CHOOSE v \in elements : TRUE,
              LAMBDA element :
                 With(IF py__name__(annotation_value) = py__name__(element)
                      THEN MergePairwise(type_var_dict, get_generics(annotation_value),
                                         get_generics(element), 1)
                      ELSE type_var_dict,
                      LAMBDA d : TypeElements(d, annotation_value, elements \ {element})))

\* The body of the loop of the Tuple branch, for one element of value_set.
TupleElement(type_var_dict, annotation_value, value_set, element) ==
    LET annotated == get_annotated_class_object(element)
        py_class == IF IsGenericClass(annotated) THEN annotated ELSE element
        annotation_generics == get_generics(annotation_value)
    IN IF ~IsDefineGenericBase(py_class) THEN type_var_dict
       ELSE IF annotation_value.homogenous
       THEN MergeNested(type_var_dict, annotation_generics[1],
                        merge_types_of_iterate(value_set), FALSE)
       ELSE MergePairwise(type_var_dict, annotation_generics, get_generics(py_class), 1)

\* Tuple[...]: the loop over the elements of value_set.
TupleElements(type_var_dict, annotation_value, value_set, elements) ==
    IF elements = {} THEN type_var_dict
    ELSE With(CHOOSE v \in elements : TRUE,
              LAMBDA element :
                 With(TupleElement(type_var_dict, annotation_value, value_set, element),
                      LAMBDA d : TupleElements(d, annotation_value, value_set,
                                               elements \ {element})))

\* MroWalk with the break at the first ancestor of the name, generic or not.
MroWalk_first_name(type_var_dict, annotation_value, mro, i) ==
    IF i > Len(mro) THEN type_var_dict
    ELSE IF py__name__(annotation_value) = py__name__(mro[i])
    THEN IF ~IsDefineGenericBase(mro[i])
         THEN type_var_dict
         ELSE MergePairwise(type_var_dict, get_generics(annotation_value),
                            get_generics(mro[i]), 1)
    ELSE MroWalk(type_var_dict, annotation_value, mro, i + 1)

\* for parent_class in py_class.py__mro__(), from position i on.
MroWalk(type_var_dict, annotation_value, mro, i) ==
    IF i > Len(mro) THEN type_var_dict
    ELSE IF py__name__(annotation_value) = py__name__(mro[i])
    THEN IF ~IsDefineGenericBase(mro[i])
         THEN MroWalk(type_var_dict, annotation_value, mro, i + 1)
         ELSE MergePairwise(type_var_dict, get_generics(annotation_value),
                            get_generics(mro[i]), 1)
    ELSE MroWalk(type_var_dict, annotation_value, mro, i + 1)

\* The general generic class: the loop over the elements of value_set.
MroElements(type_var_dict, annotation_value, elements) ==
    IF elements = {} THEN type_var_dict
    ELSE With(CHOOSE v \in elements : TRUE,
              LAMBDA element :
                 With(MroWalk(type_var_dict, annotation_value,
                              py__mro__(IF is_instance(element)
                                        THEN get_annotated_class_object(element)
                                        ELSE element), 1),
                      LAMBDA d : MroElements(d, annotation_value, elements \ {element})))

\* _infer_type_vars
infer_type_vars(annotation_value, value_set, is_class_value) ==
    LET annotation_name == py__name__(annotation_value)
        given == get_generics(annotation_value)
    IN IF IsTypeVar(annotation_value)
       THEN BindTypeVar(annotation_name, value_set, is_class_value)
       ELSE IF annotation_value.kind = "typing"
       THEN CASE annotation_name = "Type" ->
                   IF given = <<>> THEN EmptyDict
                   ELSE IF is_class_value
                   THEN TypeElements(EmptyDict, annotation_value, value_set)
                   ELSE MergeNested(EmptyDict, given[1], value_set, TRUE)
              [] annotation_name = "Callable" ->
                   IF Len(given) = 2
                   THEN MergeNested(EmptyDict, given[2],
                                    execute_annotation(value_set), FALSE)
                   ELSE EmptyDict
              [] annotation_name = "Tuple" ->
                   TupleElements(EmptyDict, annotation_value, value_set, value_set)
              [] OTHER -> EmptyDict
       ELSE IF IsGenericClass(annotation_value)
       THEN IF annotation_name = "Iterable" /\ ~is_class_value
            THEN IF given = <<>> THEN EmptyDict
                 ELSE MergeNested(EmptyDict, given[1],
                                  merge_types_of_iterate(value_set), FALSE)
            ELSE MroElements(EmptyDict, annotation_value, value_set)
       ELSE EmptyDict

\* ------------------------------------------------- type-variable discovery

RECURSIVE AppendTypeVars(_, _, _)
\* The loop of _filter_type_vars over value_set.
AppendTypeVars(new_found, value_set, found) ==
    IF value_set = {} THEN new_found
    ELSE With(CHOOSE v \in value_set : TRUE,
              LAMBDA type_var :
                 With(IF IsTypeVar(type_var) /\ \A k \in 1..Len(found) : found[k] # type_var
                      THEN Append(new_found, type_var) ELSE new_found,
                      LAMBDA longer :
                         AppendTypeVars(longer, value_set \ {type_var}, found)))

filter_type_vars(value_set, found) == AppendTypeVars(found, value_set, found)

IsNoSubscript(node) == node.type # "subscript"

\* _unpack_subscriptlist, as the sequence it yields
unpack_subscriptlist(subscriptlist) ==
    IF subscriptlist.type = "subscriptlist"
    THEN SelectSeq(ListElements(subscriptlist), IsNoSubscript)
    ELSE IF subscriptlist.type # "subscript" THEN <<subscriptlist>> ELSE <<>>

RECURSIVE check_node(_, _), CheckSubscripts(_, _, _)
\* check_node of find_unknown_type_vars; found is threaded through.
check_node(node, found) ==
    IF node.type \in {"atom_expr", "power"}
    THEN LET trailer == node.children[Len(node.children)]
         IN IF trailer.type = "trailer" /\ trailer.children[1].value = "["
            THEN With(unpack_subscriptlist(trailer.children[2]),
                      LAMBDA subscript_nodes : CheckSubscripts(subscript_nodes, 1, found))
            ELSE found
    ELSE filter_type_vars(infer_node(node), found)

CheckSubscripts(subscript_nodes, i, found) ==
    IF i > Len(subscript_nodes) THEN found
    ELSE With(check_node(subscript_nodes[i], found),
              LAMBDA longer : CheckSubscripts(subscript_nodes, i + 1, longer))

find_unknown_type_vars(node) == check_node(node, <<>>)

\* ------------------------------------------------------------- parameters
\* A function is [params, annotation, comment, is_bound_method]; a parameter
\* is [annotation, star_count]; an absent annotation or comment is <<>>, a
\* present one a one-element sequence. A comment is [is_type_comment, params,
\* returns]: whether it matches "# type: (...) ->", and the two texts the
\* regular expressions capture.

\* _infer_param without the correction for the receiver of a bound method.
infer_param_uncorrected(function_value, p) ==
    LET param == function_value.params[p]
    IN IF param.annotation # <<>> THEN infer_annotation(param.annotation[1])
       ELSE IF function_value.comment = <<>> THEN NO_VALUES
       ELSE IF ~function_value.comment[1].is_type_comment THEN NO_VALUES
       ELSE LET params_comments ==
                    split_comment_param_declaration(function_value.comment[1].params)
                index == p - 1
            IN IF index >= Len(params_comments) THEN NO_VALUES
               ELSE infer_annotation_string(params_comments[index + 1], <<>>).values

infer_param_(function_value, p) ==
    LET param == function_value.params[p]
    IN IF param.annotation # <<>> THEN infer_annotation(param.annotation[1])
       ELSE IF function_value.comment = <<>> THEN NO_VALUES
       ELSE IF ~function_value.comment[1].is_type_comment THEN NO_VALUES
       ELSE LET params_comments ==
                    split_comment_param_declaration(function_value.comment[1].params)
                index0 == p - 1
                index == IF function_value.is_bound_method THEN index0 - 1 ELSE index0
            IN IF function_value.is_bound_method /\ index0 = 0 THEN NO_VALUES
               ELSE IF index >= Len(params_comments) THEN NO_VALUES
               ELSE infer_annotation_string(params_comments[index + 1], <<>>).values

\* infer_param: the comprehensions build one GenericClass per member of values.
infer_param(function_value, p, ignore_stars) ==
    LET values == infer_param_(function_value, p)
        star_count == function_value.params[p].star_count
    IN IF ignore_stars THEN values
       ELSE IF star_count = 1
       THEN {GenericClassObj("tuple", <<values>>, <<>>, c) : c \in 1..Cardinality(values)}
       ELSE IF star_count = 2
       THEN {GenericClassObj("dict", <<{str}, values>>, <<>>, c) :
                c \in 1..Cardinality(values)}
       ELSE values

\* _find_type_from_comment_hint: varlist is the parsed assignment target, name
\* one of its leaves, comment the text after "# type:" (<<>> when absent).
RECURSIVE HintIndex(_, _, _, _)
\* The for ... else loop over varlist.children: <<index>>, or <<>> for else.
HintIndex(children, k, name, index) ==
    IF k > Len(children) THEN <<>>
    ELSE IF children[k] = name THEN <<index>>
    ELSE IF children[k].type = "operator" THEN HintIndex(children, k + 1, name, index)
    ELSE HintIndex(children, k + 1, name, index + 1)

find_type_from_comment_hint(varlist, name, comment) ==
    LET is_list == varlist.type \in {"testlist_star_expr", "exprlist", "testlist"}
        found == IF is_list THEN HintIndex(varlist.children, 1, name, 0) ELSE <<>>
    IN IF is_list /\ found = <<>> THEN [values |-> {}, raised |-> FALSE]
       ELSE IF comment = <<>> THEN [values |-> {}, raised |-> FALSE]
       ELSE LET r == infer_annotation_string(comment[1], found)
            IN [values |-> execute_annotation(r.values), raised |-> r.raised]

\* ------------------------------------------------------- return inference

RECURSIVE NestedDicts(_, _, _)
\* The dicts a loop "for ann in nested: _merge_type_var_dicts(...,
\* _infer_type_vars(ann, value_set))" merges, in the order it merges them.
NestedDicts(nested, value_set, is_class_value) ==
    IF nested = {} THEN <<>>
    ELSE With(CHOOSE v \in nested : TRUE,
              LAMBDA nested_annotation_value :
                 <<infer_type_vars(nested_annotation_value, value_set, is_class_value)>>
                 \o NestedDicts(nested \ {nested_annotation_value}, value_set,
                                is_class_value))

\* The actual value set of an executed parameter, by the parameter's kind.
ActualValueSet(star_count, actual_value_set) ==
    IF star_count = 0 THEN actual_value_set
    ELSE merge_types_of_iterate(actual_value_set)

RECURSIVE ForCallable(_, _, _, _)
\* The loop of infer_type_vars_for_callable over zip(arguments, lazy_params).
ForCallable(annotation_variable_results, arguments, lazy_params, i) ==
    IF i > Len(arguments) \/ i > Len(lazy_params) THEN annotation_variable_results
    ELSE With(MergeNested(annotation_variable_results, lazy_params[i], arguments[i],
                          FALSE),
              LAMBDA d : ForCallable(d, arguments, lazy_params, i + 1))

infer_type_vars_for_callable(arguments, lazy_params) ==
    ForCallable(EmptyDict, arguments, lazy_params, 1)

\* dict.update
update(base_dict, new_dict) ==
    [k \in DOMAIN base_dict \cup DOMAIN new_dict |->
        IF k \in DOMAIN new_dict THEN new_dict[k] ELSE base_dict[k]]

\* ValueSet.from_sets(v.define_generics(type_var_dict) if isinstance(v,
\* (DefineGenericBase, TypeVar)) else ValueSet({v}) ...).execute_annotation()
Substitute(values, type_var_dict) ==
    execute_annotation(
        UNION {IF IsDefineGenericBase(v) \/ IsTypeVar(v)
               THEN define_generics(v, type_var_dict) ELSE {v} : v \in values})

\* ------------------------------------------------------------------ inputs

T == TypeVar("T")
U == TypeVar("U")

SubsetsUpTo(S, n) == {X \in SUBSET S : Cardinality(X) <= n}

ExampleTexts ==
    {<<"foo", ",", "Bar", "[", "foo", ",", "Bar", "]">>,
     <<"Bar", "[", "foo", ",", "Bar", "]", ",", "foo">>,
     <<"Bar", "[", "foo", ",", "1", "]">>,
     <<"foo", ".", "Bar", ",", "1", ",", "foo">>}

CommentTexts == SeqsUpTo(Alphabet, MaxTextLen) \cup ExampleTexts

AnnotationTexts ==
    {<<"int">>, <<"str">>, <<"amb">>, <<"T">>, <<"foo">>,
     <<"int", ",">>, <<"int", ",", "str">>, <<"int", ",", "str", ",", "T">>,
     <<"list", "[", "int", "]">>, <<"list", "[", "T", "]">>,
     <<"Tuple", "[", "T", ",", "U", "]">>, <<"mod", ".", "T">>,
     <<>>, <<"[", "int">>, <<"int", "str">>}

\* The annotations find_unknown_type_vars is given: every text of names,
\* attributes and subscripts up to the bound, and longer ones with nested and
\* repeated type variables.
TypeVarAlphabet == {"T", "U", "mod", "list", "[", "]", ",", "."}

TypeVarTexts ==
    SeqsUpTo(TypeVarAlphabet, MaxTextLen)
    \cup {<<"Tuple", "[", "T", ",", "U", ",", "T", "]">>,
          <<"Tuple", "[", "U", ",", "T", ",", "U", "]">>,
          <<"list", "[", "list", "[", "T", "]", "]">>,
          <<"Tuple", "[", "list", "[", "U", "]", ",", "T", ",", "U", "]">>,
          <<"Tuple", "[", "T", ",", "list", "[", "T", ",", "U", "]", "]">>,
          <<"Tuple", "[", "mod", ".", "T", ",", "U", ",", "T", "]">>,
          <<"list", "[", "mod", ".", "U", "]">>,
          <<"Tuple", "[", "T", ",", "...", "]">>,
          <<"Tuple", "[", "int", ",", "1", "]">>}

TypeVarNodes ==
    {ParseEvalInput(t).node : t \in {x \in TypeVarTexts : ParseEvalInput(x).ok}}

AnnotationNodes ==
    {ParseEvalInput(t).node : t \in {x \in AnnotationTexts : ParseEvalInput(x).ok}}
    \cup {StringNode(t) : t \in AnnotationTexts}

Annotations ==
    {T,
     TypingClassValueWithIndex("Type", <<{T}>>, FALSE),
     TypingClassValueWithIndex("Type", <<>>, FALSE),
     TypingClassValueWithIndex("Callable",
                               <<{SequenceLiteralValue("list", <<{int}>>)}, {T}>>, FALSE),
     TypingClassValueWithIndex("Tuple", <<{T}, {U}>>, FALSE),
     TypingClassValueWithIndex("Tuple", <<{T}, {U}, {T}>>, FALSE),
     TypingClassValueWithIndex("Tuple", <<{T}>>, TRUE),
     GenericClass("Iterable", <<{T}>>),
     GenericClass("list", <<{T}>>),
     GenericClass("Box", <<{T}>>),
     GenericClass("Box", <<{T, U}, {U}>>),
     int}

ActualValues ==
    {Instance(int), Instance(str), int, str,
     Instance(GenericClass("tuple", <<{int}, {str}>>)),
     Instance(GenericClass("tuple", <<{int}, {int}, {str}>>)),
     Instance(GenericClass("tuple", <<{str}>>)),
     Instance(ClassValue("Bag", <<>>)),
     Instance(GenericClass("list", <<{int}>>)),
     GenericClass("list", <<{str}>>),
     Instance(ClassValue("Child", <<ClassValue("Box", <<>>),
                                    GenericClass("Box", <<{int}, {str}>>)>>)),
     Instance(ClassValue("Heir", <<GenericClass("Box", <<{str}>>),
                                   GenericClass("Box", <<{int}>>)>>)),
     ClassValue("Box", <<GenericClass("Box", <<{int}>>)>>),
     TypingClassValueWithIndex("Type", <<{int}>>, FALSE),
     FunctionValue({Instance(str)})}

\* The members of value_set have the attributes the branch taken for
\* annotation_value reads (get_annotated_class_object, py__mro__).
HasAttributes(annotation_value, value_set) ==
    IF annotation_value.kind = "typing" /\ annotation_value.name = "Tuple"
    THEN \A v \in value_set : v.kind = "instance"
    ELSE IF IsGenericClass(annotation_value) /\ annotation_value.name # "Iterable"
    THEN \A v \in value_set : v.kind \in {"instance", "class", "generic"}
    ELSE TRUE

NoAnnotation == <<>>
Annotated(text) == <<ParseEvalInput(text).node>>
Param(annotation, star_count) == [annotation |-> annotation, star_count |-> star_count]

Comments ==
    {<<>>, <<[is_type_comment |-> FALSE, params |-> <<>>, returns |-> <<>>]>>}
    \cup {<<[is_type_comment |-> TRUE, params |-> t, returns |-> <<"int">>]>> :
            t \in {<<"int">>, <<"int", ",", "str">>,
                   <<"T", ",", "list", "[", "int", ",", "str", "]", ",", "str">>,
                   <<"int", ",", "[">>, <<>>}}

ParamDecls ==
    {Param(a, n) : a \in {NoAnnotation, Annotated(<<"int">>), Annotated(<<"amb">>),
                          Annotated(<<"foo">>)},
                   n \in 0..2}

\* A parameter of infer_return_types with the argument bound to it.
Bindings ==
    {[param |-> Param(Annotated(<<"T">>), 0), actual |-> {Instance(int)}],
     [param |-> Param(Annotated(<<"T">>), 0), actual |-> {Instance(str)}],
     [param |-> Param(Annotated(<<"T">>), 0), actual |-> {}],
     [param |-> Param(Annotated(<<"U">>), 0), actual |-> {Instance(str)}],
     [param |-> Param(Annotated(<<"amb">>), 0), actual |-> {Instance(int)}],
     [param |-> Param(NoAnnotation, 0), actual |-> {Instance(str)}],
     [param |-> Param(Annotated(<<"list", "[", "T", "]">>), 0),
      actual |-> {Instance(GenericClass("list", <<{int}>>))}],
     [param |-> Param(Annotated(<<"Tuple", "[", "T", ",", "U", "]">>), 0),
      actual |-> {Instance(GenericClass("tuple", <<{int}, {str}>>))}],
     [param |-> Param(Annotated(<<"T">>), 1),
      actual |-> {SequenceLiteralValue("tuple", <<{Instance(int)}, {Instance(str)}>>)}],
     [param |-> Param(Annotated(<<"T">>), 2),
      actual |-> {SequenceLiteralValue("dict", <<{Instance(str)}>>)}]}

ReturnAnnotations ==
    {<<>>, Annotated(<<"T">>), Annotated(<<"int">>), Annotated(<<"list", "[", "T", "]">>),
     Annotated(<<"Tuple", "[", "T", ",", "U", "]">>)}

SeqsFromTo(S, lo, hi) == {s \in SeqsUpTo(S, hi) : Len(s) >= lo}

\* The parameter groups of a Callable: lists of lazy parameters, and a value
\* that is no list.
ParamGroups ==
    {SequenceLiteralValue("list", <<{T}>>),
     SequenceLiteralValue("list", <<{GenericClass("list", <<{T}>>)}>>),
     SequenceLiteralValue("list", <<{T}, {U}>>),
     SequenceLiteralValue("list", <<{U}, {T, GenericClass("list", <<{T}>>)}>>),
     SequenceLiteralValue("tuple", <<{T}>>)}

CallArguments ==
    {<<{Instance(int)}>>, <<{}>>,
     <<{Instance(GenericClass("list", <<{str}>>))}, {Instance(int)}>>,
     <<{Instance(int), Instance(str)}, {Instance(str)}>>}

Injective(s) == \A a, b \in 1..Len(s) : s[a] = s[b] => a = b

\* --------------------------------------------------------------- actions

Idle == [fn |-> "none"]

\* What a call gives back: a ValueSet (or an exception), the fragments of
\* a parameter declaration, a type-var dict, or a list of type variables.
Values(value_set) == [values |-> value_set, raised |-> FALSE]
Fragments(list) == [fragments |-> list]
TypeVarDict(dict) == [type_var_dict |-> dict]
Found(list) == [found |-> list]
NoResult == [returned |-> FALSE]

Returns(value) ==
    /\ pc' = "done"
    /\ result' = value
    /\ type_vars' = EmptyDict
    /\ pending' = <<>>
    /\ merged' = <<>>

Call_infer_annotation ==
    /\ pc = "idle"
    /\ \E annotation \in AnnotationNodes :
          /\ args' = [fn |-> "infer_annotation", annotation |-> annotation]
          /\ Returns(Values(infer_annotation(annotation)))

Call_infer_annotation_string ==
    /\ pc = "idle"
    /\ \E string \in AnnotationTexts, index \in {<<>>} \cup {<<i>> : i \in 0..MaxIndex} :
          /\ args' = [fn |-> "_infer_annotation_string", string |-> string,
                      index |-> index]
          /\ Returns(infer_annotation_string(string, index))

Call_split_comment_param_declaration ==
    /\ pc = "idle"
    /\ \E decl_text \in CommentTexts :
          /\ args' = [fn |-> "_split_comment_param_declaration",
                      decl_text |-> decl_text]
          /\ Returns(Fragments(split_comment_param_declaration(decl_text)))

\* infer_param(function_value, param, ignore_stars) for parameter p of n; the
\* other parameters of the function are plain and not annotated.
Call_infer_param ==
    /\ pc = "idle"
    /\ \E n \in 1..MaxParams, decl \in ParamDecls, comment \in Comments,
          is_bound_method \in BOOLEAN, ignore_stars \in BOOLEAN :
          \E p \in 1..n :
             LET function_value ==
                    [params |-> [k \in 1..n |-> IF k = p THEN decl
                                                ELSE Param(NoAnnotation, 0)],
                     annotation |-> <<>>,
                     comment |-> comment,
                     is_bound_method |-> is_bound_method]
             IN /\ args' = [fn |-> "infer_param", function_value |-> function_value,
                            p |-> p, ignore_stars |-> ignore_stars]
                /\ Returns(Values(infer_param(function_value, p, ignore_stars)))

Call_find_type_from_comment_hint ==
    /\ pc = "idle"
    /\ \E target \in {<<"foo">>, <<"foo", ",", "Bar">>, <<"foo", ",", "Bar", ",", "T">>},
          name \in {"foo", "Bar", "T", "U"},
          comment \in {<<>>} \cup {<<t>> : t \in AnnotationTexts} :
          LET varlist == ParseEvalInput(target).node
          IN /\ args' = [fn |-> "_find_type_from_comment_hint", varlist |-> varlist,
                         name |-> Leaf("name", name), comment |-> comment]
             /\ Returns(find_type_from_comment_hint(varlist, Leaf("name", name), comment))

Call_infer_type_vars ==
    /\ pc = "idle"
    /\ \E annotation_value \in Annotations,
          value_set \in SubsetsUpTo(ActualValues, MaxValues),
          is_class_value \in BOOLEAN :
          /\ HasAttributes(annotation_value, value_set)
          /\ args' = [fn |-> "_infer_type_vars", annotation_value |-> annotation_value,
                      value_set |-> value_set, is_class_value |-> is_class_value]
          /\ Returns(TypeVarDict(infer_type_vars(annotation_value, value_set,
                                                       is_class_value)))

Call_find_unknown_type_vars ==
    /\ pc = "idle"
    /\ \E node \in TypeVarNodes :
          /\ args' = [fn |-> "find_unknown_type_vars", node |-> node]
          /\ Returns(Found(find_unknown_type_vars(node)))

\* infer_return_types up to its call of infer_type_vars_for_execution.
Call_infer_return_types ==
    /\ pc = "idle"
    /\ \E bindings \in SeqsFromTo(Bindings, 1, MaxParams),
          annotation \in ReturnAnnotations, comment \in Comments :
          LET function == [params |-> [k \in 1..Len(bindings) |-> bindings[k].param],
                           annotation |-> annotation,
                           comment |-> comment,
                           is_bound_method |-> FALSE]
              arguments == [k \in 1..Len(bindings) |-> bindings[k].actual]
          IN /\ annotation = <<>> \/ comment = <<>>
             /\ args' = [fn |-> "infer_return_types", function |-> function,
                         arguments |-> arguments]
             /\ IF annotation = <<>>
                THEN IF comment = <<>> THEN Returns(Values(NO_VALUES))
                     ELSE IF ~comment[1].is_type_comment THEN Returns(Values(NO_VALUES))
                     ELSE Returns(Values(execute_annotation(
                              infer_annotation_string(comment[1].returns, <<>>).values)))
                ELSE IF find_unknown_type_vars(annotation[1]) = <<>>
                THEN Returns(Values(execute_annotation(
                                 infer_annotation(annotation[1]))))
                ELSE /\ pc' = "infer_type_vars_for_execution"
                     /\ result' = NoResult
                     /\ type_vars' = EmptyDict
                     /\ pending' = [k \in 1..Len(bindings) |-> k]
                     /\ merged' = <<>>

\* One iteration of "for executed_param_name in executed_param_names".
Step_infer_type_vars_for_execution ==
    /\ pc = "infer_type_vars_for_execution"
    /\ pending # <<>>
    /\ LET param == args.function.params[Head(pending)]
           actual_value_set == ActualValueSet(param.star_count,
                                              args.arguments[Head(pending)])
           unify == /\ param.annotation # <<>>
                    /\ find_unknown_type_vars(param.annotation[1]) # <<>>
           annotation_value_set == infer_node(param.annotation[1])
       IN /\ type_vars' = IF unify
                          THEN MergeNested(type_vars, annotation_value_set,
                                           actual_value_set, FALSE)
                          ELSE type_vars
          /\ merged' = IF unify
                       THEN merged \o NestedDicts(annotation_value_set,
                                                  actual_value_set, FALSE)
                       ELSE merged
    /\ pending' = Tail(pending)
    /\ UNCHANGED <<pc, args, result>>

\* infer_return_types after infer_type_vars_for_execution has returned.
Finish_infer_return_types ==
    /\ pc = "infer_type_vars_for_execution"
    /\ pending = <<>>
    /\ pc' = "done"
    /\ result' = Values(Substitute(infer_annotation(args.function.annotation[1]),
                                 type_vars))
    /\ UNCHANGED <<args, type_vars, pending, merged>>

Call_infer_return_for_callable ==
    /\ pc = "idle"
    /\ \E arguments \in CallArguments,
          param_values \in SeqsFromTo(ParamGroups, 1, MaxGroups),
          result_values \in {{T}, {GenericClass("list", <<{T}>>), U}} :
          /\ Injective(param_values)
          /\ args' = [fn |-> "infer_return_for_callable", arguments |-> arguments,
                      param_values |-> param_values, result_values |-> result_values]
          /\ pc' = "infer_return_for_callable"
          /\ result' = NoResult
          /\ type_vars' = EmptyDict
          /\ pending' = param_values
          /\ merged' = <<>>

\* One iteration of "for pv in param_values".
Step_infer_return_for_callable ==
    /\ pc = "infer_return_for_callable"
    /\ pending # <<>>
    /\ LET pv == Head(pending)
           type_var_dict == infer_type_vars_for_callable(args.arguments, py__iter__(pv))
       IN IF HasArrayType(pv, "list")
          THEN /\ type_vars' = update(type_vars, type_var_dict)
               /\ merged' = Append(merged, type_var_dict)
          ELSE UNCHANGED <<type_vars, merged>>
    /\ pending' = Tail(pending)
    /\ UNCHANGED <<pc, args, result>>

Finish_infer_return_for_callable ==
    /\ pc = "infer_return_for_callable"
    /\ pending = <<>>
    /\ pc' = "done"
    /\ result' = Values(Substitute(args.result_values, type_vars))
    /\ UNCHANGED <<args, type_vars, pending, merged>>

\* The caller takes the result; the next call starts from scratch.
Return ==
    /\ pc = "done"
    /\ pc' = "idle"
    /\ args' = Idle
    /\ result' = NoResult
    /\ type_vars' = EmptyDict
    /\ pending' = <<>>
    /\ merged' = <<>>

Init ==
    /\ pc = "idle"
    /\ args = Idle
    /\ result = NoResult
    /\ type_vars = EmptyDict
    /\ pending = <<>>
    /\ merged = <<>>

Next ==
    \/ Call_infer_annotation
    \/ Call_infer_annotation_string
    \/ Call_split_comment_param_declaration
    \/ Call_infer_param
    \/ Call_find_type_from_comment_hint
    \/ Call_infer_type_vars
    \/ Call_find_unknown_type_vars
    \/ Call_infer_return_types
    \/ Step_infer_type_vars_for_execution
    \/ Finish_infer_return_types
    \/ Call_infer_return_for_callable
    \/ Step_infer_return_for_callable
    \/ Finish_infer_return_for_callable
    \/ Return

Spec == Init /\ [][Next]_vars

\* ------------------------------------------------------------- properties

Range(seq) == {seq[i] : i \in 1..Len(seq)}

\* The per-variable union of a set of dicts: every variable some dict binds,
\* bound to the union of its bindings.
PerVariableUnion(dicts) ==
    [k \in UNION {DOMAIN d : d \in dicts} |->
        UNION {d[k] : d \in {e \in dicts : k \in DOMAIN e}}]

\* A dict without the variables it binds to the empty set.
NonEmptyBindings(dict) == [k \in {j \in DOMAIN dict : dict[j] # {}} |-> dict[k]]

Permutations_(n) == {f \in [1..n -> 1..n] : \A a, b \in 1..n : f[a] = f[b] => a = b}

RECURSIVE FoldMerge(_, _, _)
\* dicts[i..] merged into base_dict one after the other.
FoldMerge(base_dict, dicts, i) ==
    IF i > Len(dicts) THEN base_dict
    ELSE With(merge_type_var_dicts(base_dict, dicts[i]),
              LAMBDA d : FoldMerge(d, dicts, i + 1))

InExecution == pc = "infer_type_vars_for_execution"
AfterExecution ==
    pc = "done" /\ args.fn = "infer_return_types" /\ merged # <<>>
InCallable ==
    \/ pc = "infer_return_for_callable"
    \/ pc = "done" /\ args.fn = "infer_return_for_callable"

\* C1: wherever bindings are accumulated (over the parameters in
\* infer_type_vars_for_execution, over the list-typed groups in
\* infer_return_for_callable), every variable of the accumulator holds the
\* union of all the bindings combined for it so far: none was replaced.
C1_BindingsAreUnions ==
    (InExecution \/ AfterExecution \/ InCallable) =>
        \A k \in DOMAIN type_vars :
            type_vars[k] = UNION {d[k] : d \in {e \in Range(merged) : k \in DOMAIN e}}

\* C2 as stated: the dicts of the arguments folded into an empty accumulator
\* give their per-variable union, whatever the order.
C2_FoldIsPerVariableUnion ==
    (InExecution \/ AfterExecution) =>
        /\ type_vars = PerVariableUnion(Range(merged))
        /\ \A f \in Permutations_(Len(merged)) :
              FoldMerge(EmptyDict, [i \in 1..Len(merged) |-> merged[f[i]]], 1) = type_vars

\* The list-typed groups infer_return_for_callable has gone through.
GroupsDone ==
    SelectSeq(SubSeq(args.param_values, 1, Len(args.param_values) - Len(pending)),
              LAMBDA pv : HasArrayType(pv, "list"))

\* The dicts infer_type_vars_for_callable merges for one group of parameters.
ArgumentDicts(arguments, lazy_params) ==
    UNION {{infer_type_vars(v, arguments[i], FALSE) : v \in lazy_params[i]} :
              i \in 1..(IF Len(arguments) < Len(lazy_params)
                        THEN Len(arguments) ELSE Len(lazy_params))}

\* C2, amended: the fold gives the same dict in every order, and it is the
\* per-variable union without the variables that are bound to empty sets
\* only; infer_type_vars_for_callable builds each of its dicts the same way.
C2_FoldIsNonEmptyUnion ==
    /\ (InExecution \/ AfterExecution) =>
          /\ type_vars = NonEmptyBindings(PerVariableUnion(Range(merged)))
          /\ \A f \in Permutations_(Len(merged)) :
                FoldMerge(EmptyDict, [i \in 1..Len(merged) |-> merged[f[i]]], 1)
                    = type_vars
    /\ InCallable =>
          \A i \in 1..Len(merged) :
              merged[i] = NonEmptyBindings(PerVariableUnion(
                              ArgumentDicts(args.arguments, py__iter__(GroupsDone[i]))))

\* Two arguments bound the same variable differently, and one argument bound
\* a variable to the empty set.
C2_Witness ==
    /\ AfterExecution
    /\ \E i, j \in 1..Len(merged) : \E k \in DOMAIN merged[i] \cap DOMAIN merged[j] :
          merged[i][k] # {} /\ merged[j][k] = {}

Done(fn) == pc = "done" /\ args.fn = fn

\* def f(x: T) -> T
IsIdentityOfT(function) ==
    /\ function.params = <<Param(Annotated(<<"T">>), 0)>>
    /\ function.annotation = Annotated(<<"T">>)

\* C3: a bare type variable T unified with the value set S gives {T: S} when
\* S is taken as classes and {T: the classes of the members of S} when it is
\* not; so def f(x: T) -> T called with instances returns those instances.
C3_TypeVarBinding ==
    /\ (Done("_infer_type_vars") /\ IsTypeVar(args.annotation_value)) =>
          result.type_var_dict = [k \in {args.annotation_value.name} |->
                       IF args.is_class_value THEN args.value_set
                       ELSE py__class__(args.value_set)]
    /\ (Done("infer_return_types") /\ IsIdentityOfT(args.function)) =>
          result.values = args.arguments[1]

C3_Witness ==
    /\ Done("infer_return_types")
    /\ IsIdentityOfT(args.function)
    /\ args.arguments = <<{Instance(int)}>>
    /\ result.values = {Instance(int)}

\* The actual values that expose a parameterization: instances of a
\* GenericClass.
Parameterized(value_set) ==
    {v \in value_set : v.kind = "instance" /\ v.cls.kind = "generic"}

TypeVarNames(generics) ==
    {v.name : v \in {w \in UnionOfSeq(generics) : IsTypeVar(w)}}

\* What C4 says a Tuple annotation binds: position by position for a tuple of
\* fixed arity, the merged element types of the parameterized actual values
\* for a homogeneous one.
TupleBindings(annotation_value, value_set) ==
    LET actuals == Parameterized(value_set)
        generics == annotation_value.generics
    IN NonEmptyBindings(
          [k \in TypeVarNames(generics) |->
              IF annotation_value.homogenous
              THEN py__class__(merge_types_of_iterate(actuals))
              ELSE UNION {UNION {v.cls.generics[i] :
                                    i \in {j \in 1..Len(generics) :
                                             /\ j <= Len(v.cls.generics)
                                             /\ TypeVar(k) \in generics[j]}} :
                             v \in actuals}])

\* C4: Tuple[T, U] pairs the generics of each actual tuple by position,
\* Tuple[T, ...] binds T to the merged element types of the actual tuples, and
\* actual values without a parameterization contribute no binding.
C4_TupleUnification ==
    (/\ Done("_infer_type_vars")
     /\ args.annotation_value.kind = "typing"
     /\ args.annotation_value.name = "Tuple") =>
        result.type_var_dict = TupleBindings(args.annotation_value, args.value_set)

\* C5: with an index i, _infer_annotation_string takes element i of the
\* inferred tuples that have at least i + 1 elements, and never reaches
\* outside a tuple.
C5_IndexedElement ==
    (Done("_infer_annotation_string") /\ args.index # <<>>) =>
        LET i == args.index[1]
            r == get_forward_reference_node(args.string)
            tuples == IF r.ok
                      THEN {v \in infer_node(r.node) :
                               HasArrayType(v, "tuple") /\ Len(v.elems) >= i + 1}
                      ELSE {}
        IN /\ ~result.raised
           /\ result.values = UNION {v.elems[i + 1] : v \in tuples}

\* The annotation infers to exactly one string, which does not parse.
ForwardReferenceFails(annotation) ==
    LET value_set == infer_node(annotation)
    IN /\ Cardinality(value_set) = 1
       /\ \A v \in value_set : is_string(v) /\ ~ParseEvalInput(v.text).ok

StringFails ==
    (Done("_infer_annotation_string") /\ ~ParseEvalInput(args.string).ok) =>
        result = [values |-> NO_VALUES, raised |-> FALSE]

\* C6: a forward reference that does not parse gives the empty value set,
\* from infer_annotation and from _infer_annotation_string.
C6_SyntaxFailureGivesNothing ==
    /\ (Done("infer_annotation") /\ ForwardReferenceFails(args.annotation)) =>
          result.values = NO_VALUES
    /\ StringFails

\* C7: for a variadic parameter whose annotation resolves to V, infer_param
\* returns nothing when V is empty and else exactly one wrapper: tuple with the
\* generics (V), or dict with the generics ({str}, V).
C7_OneWrapper ==
    (/\ Done("infer_param")
     /\ ~args.ignore_stars
     /\ args.function_value.params[args.p].star_count \in {1, 2}) =>
        LET V == infer_param_(args.function_value, args.p)
            star_count == args.function_value.params[args.p].star_count
        IN IF V = {} THEN result.values = {}
           ELSE /\ Cardinality(result.values) = 1
                /\ \A w \in result.values :
                      /\ w.kind = "generic"
                      /\ w.name = IF star_count = 1 THEN "tuple" ELSE "dict"
                      /\ w.generics = IF star_count = 1 THEN <<V>> ELSE <<{str}, V>>

\* How deep inside brackets position i of the text t is.
Depth(t, i) ==
    Cardinality({j \in 1..(i - 1) : t[j] = "["})
        - Cardinality({j \in 1..(i - 1) : t[j] = "]"})

TopLevelCommas(t) == {i \in 1..Len(t) : t[i] = "," /\ Depth(t, i) = 0}

RECURSIVE Ascending(_)
Ascending(S) ==
    IF S = {} THEN <<>>
    ELSE With(CHOOSE m \in S : \A x \in S : m <= x,
              LAMBDA m : <<m>> \o Ascending(S \ {m}))

\* The pieces of t between its commas outside brackets, in order.
Segments(t) ==
    LET cuts == <<0>> \o Ascending(TopLevelCommas(t)) \o <<Len(t) + 1>>
    IN [k \in 1..(Len(cuts) - 1) |-> SubSeq(t, cuts[k] + 1, cuts[k + 1] - 1)]

\* A piece is a name, or an expression with a subscript or an attribute.
IsNameOrTrailed(segment) ==
    \/ Len(segment) = 1 /\ segment[1] \in NameTokens
    \/ Len(segment) > 1

GeneralCase ==
    /\ Done("_infer_type_vars")
    /\ IsGenericClass(args.annotation_value)
    /\ ~(args.annotation_value.name = "Iterable" /\ ~args.is_class_value)

ClassOf(element) == IF is_instance(element) THEN element.cls ELSE element

\* The bindings of one actual value: those of the first ancestor in its
\* method resolution order that has the name of the annotation (and, with
\* generic_only, is parameterized), if that ancestor is parameterized.
AncestorBindings(annotation_value, element, generic_only) ==
    LET mro == py__mro__(ClassOf(element))
        matching == {i \in 1..Len(mro) :
                        /\ py__name__(mro[i]) = py__name__(annotation_value)
                        /\ generic_only => IsDefineGenericBase(mro[i])}
        first == CHOOSE i \in matching : \A j \in matching : i <= j
    IN IF matching = {} THEN EmptyDict
       ELSE IF ~IsDefineGenericBase(mro[first]) THEN EmptyDict
       ELSE MergePairwise(EmptyDict, get_generics(annotation_value),
                          get_generics(mro[first]), 1)

\* C9 as stated: the search stops at the first ancestor with the name of the
\* annotation, which gives bindings only if it is parameterized.
C9_FirstNamedAncestor ==
    GeneralCase =>
        result.type_var_dict = NonEmptyBindings(PerVariableUnion(
                    {AncestorBindings(args.annotation_value, v, FALSE) :
                        v \in args.value_set}))

\* C9, amended: ancestors with the name that are not parameterized are
\* passed over; the search stops at the first one that is parameterized.
C9_FirstGenericAncestor ==
    GeneralCase =>
        result.type_var_dict = NonEmptyBindings(PerVariableUnion(
                    {AncestorBindings(args.annotation_value, v, TRUE) :
                        v \in args.value_set}))

\* An ancestor named Box that is not parameterized comes before one that is.
C9_Witness ==
    /\ GeneralCase
    /\ args.annotation_value = GenericClass("Box", <<{T}>>)
    /\ args.value_set =
          {Instance(ClassValue("Child", <<ClassValue("Box", <<>>),
                                          GenericClass("Box", <<{int}, {str}>>)>>))}
    /\ result.type_var_dict = [k \in {"T"} |-> {int}]

IsSubscripted(node) ==
    /\ node.type \in {"atom_expr", "power"}
    /\ node.children[Len(node.children)].children[1].value = "["

RECURSIVE Reached(_), ReachedIn(_, _)
\* The expressions the search is to infer, from left to right: a subscripted
\* expression stands for the elements of its subscript, every other
\* expression (a name, an attribute expression) for itself.
Reached(node) ==
    IF IsSubscripted(node)
    THEN With(SelectSeq(ListElements(node.children[Len(node.children)].children[2]),
                        LAMBDA e : e.type # "subscript"),
              LAMBDA elements : ReachedIn(elements, 1))
    ELSE <<node>>

ReachedIn(elements, i) ==
    IF i > Len(elements) THEN <<>>
    ELSE With(Reached(elements[i]), LAMBDA first : first \o ReachedIn(elements, i + 1))

\* Where in the annotation the type variable appears.
Appearances(node, type_var) ==
    With(Reached(node),
         LAMBDA reached : {k \in 1..Len(reached) : type_var \in infer_node(reached[k])})

FirstAppearance(node, type_var) ==
    With(Appearances(node, type_var),
         LAMBDA where : CHOOSE k \in where : \A j \in where : k <= j)

\* The type variables that appear in the annotation.
Appearing(node) ==
    With(Reached(node),
         LAMBDA reached :
            {v \in UNION {infer_node(reached[k]) : k \in 1..Len(reached)} : IsTypeVar(v)})

\* C11: find_unknown_type_vars returns each type variable once, and in the
\* order in which the type variables first appear in the annotation, from
\* left to right.
C11_FirstAppearanceOrder ==
    Done("find_unknown_type_vars") =>
        LET found == result.found
        IN /\ Injective(found)
           /\ Range(found) \subseteq Appearing(args.node)
           /\ \A a, b \in 1..Len(found) :
                 a < b => FirstAppearance(args.node, found[a])
                             < FirstAppearance(args.node, found[b])

\* C12: find_unknown_type_vars collects the type variables of every name and
\* every attribute expression it reaches, at the top level or as an element
\* of a subscript; only subscripted expressions are taken apart.
C12_NamesAndAttributesInferred ==
    (Done("find_unknown_type_vars") /\ args.node.type # "testlist") =>
        Range(result.found) = Appearing(args.node)
====
